---- MODULE Spec2Model ----
(***************************************************************************)
(* Hash-chain pebble generation (src/src/lib.rs).                          *)
(*                                                                         *)
(* The module models create_powers, log_2, create_hash_chain and           *)
(* create_hash_chain_nopebble statement by statement.  Unsigned machine    *)
(* integers (u64, and usize on a 64-bit target) are WordBits wide; the     *)
(* width is scaled down so that the largest power-of-two length is         *)
(* reachable by the loop.  Arithmetic that exceeds the width either        *)
(* panics (overflow checks on, the debug profile) or wraps modulo          *)
(* 2^WordBits (overflow checks off, the release profile); which of the two *)
(* is fixed per behaviour by the variable `checks`.                        *)
(*                                                                         *)
(* The digest H is a type parameter of the code.  It is instantiated here  *)
(* with a reduced-size digest of OutputSize bytes that absorbs its input   *)
(* byte by byte.                                                           *)
(***************************************************************************)
EXTENDS Integers, Sequences, FiniteSets, TLC

\* Width in bits of u64 / usize (64 in the code), scaled.
WordBits == 5
\* create_powers is exercised alone with counts 0..MaxHowMany.
MaxHowMany == 10
\* Digest output size in bytes (H::OutputSize) of the stand-in digest.
OutputSize == 2
\* Number of bytes of seed.to_le_bytes().
SeedBytes == 8

RECURSIVE Pow2(_)
Pow2(n) == IF n <= 0 THEN 1 ELSE 2 * Pow2(n - 1)

Modulus == Pow2(WordBits)
DigestMod == Pow2(8 * OutputSize)

UsizeValues == 0 .. (Modulus - 1)
\* Lengths given to create_hash_chain: every usize value.
Lengths == UsizeValues
\* Lengths given to create_hash_chain_nopebble.
FullLengths == 0 .. Pow2(WordBits - 1)
Seeds == {0, 258}
HowManys == 0 .. MaxHowMany

VARIABLES
    checks,        \* build profile: TRUE = overflow checks on
    pc,            \* "idle" | "chain" | "full" | "panicked"
    panic,         \* reason of the panic, "none" otherwise
    \* create_hash_chain: arguments and locals
    length, seed, num_pebbles, powers, pebbles, hasher, output, i,
    hashes,        \* number of finalize_reset calls made by the call
    ret,           \* value returned by the last create_hash_chain call
    snap,          \* a result kept by the caller from an earlier call
    \* create_hash_chain_nopebble: arguments and locals
    f_length, f_seed, chain, f_hasher, f_output, f_i,
    full,          \* value returned by the last create_hash_chain_nopebble call
    \* create_powers called on its own
    pw_pc, pw_how_many, pw_p, pw_powers

chainVars == <<length, seed, num_pebbles, powers, pebbles, hasher, output, i, hashes, ret>>
fullVars == <<f_length, f_seed, chain, f_hasher, f_output, f_i, full>>
pwVars == <<pw_pc, pw_how_many, pw_p, pw_powers>>
vars == <<checks, pc, panic, chainVars, snap, fullVars, pwVars>>

----------------------------------------------------------------------------
(* Machine arithmetic *)

RECURSIVE BitAnd(_, _)
BitAnd(a, b) ==
    IF a = 0 \/ b = 0 THEN 0
    ELSE (IF a % 2 = 1 /\ b % 2 = 1 THEN 1 ELSE 0) + 2 * BitAnd(a \div 2, b \div 2)

\* a * b on u64: the wrapped value and whether it overflowed.
UMul(a, b) == [ovf |-> a * b >= Modulus, val |-> (a * b) % Modulus]

\* a - b on usize.
USub(a, b) == [ovf |-> a < b, val |-> (a - b + Modulus) % Modulus]

\* 2u64.pow(e): repeated multiplication on u64.
RECURSIVE U64Pow2(_)
U64Pow2(e) ==
    IF e = 0 THEN [ovf |-> FALSE, val |-> 1]
    ELSE LET r == U64Pow2(e - 1)
             m == UMul(2, r.val)
         IN  [ovf |-> r.ovf \/ m.ovf, val |-> m.val]

\* x.leading_zeros() on u64.
RECURSIVE BitLength(_)
BitLength(x) == IF x = 0 THEN 0 ELSE 1 + BitLength(x \div 2)
LeadingZeros(x) == WordBits - BitLength(x)

num_bits == WordBits

\* log_2: assert!(x > 0); num_bits - leading_zeros - 1.
log_2(x) ==
    IF ~(x > 0) THEN [panic |-> "assert", val |-> 0]
    ELSE [panic |-> "none", val |-> num_bits - LeadingZeros(x) - 1]

----------------------------------------------------------------------------
(* Digest capability *)

\* seed.to_le_bytes(): least significant byte first.
RECURSIVE LeBytes(_, _)
LeBytes(x, n) == IF n = 0 THEN <<>> ELSE <<x % 256>> \o LeBytes(x \div 256, n - 1)
to_le_bytes(x) == LeBytes(x, SeedBytes)

RECURSIVE Absorb(_, _)
Absorb(h, bytes) ==
    IF bytes = <<>> THEN h
    ELSE Absorb((h * 33 + Head(bytes) + 1) % DigestMod, Tail(bytes))

\* The digest of a byte string, as OutputSize bytes.
Digest(bytes) == LeBytes(Absorb(5381 % DigestMod, bytes), OutputSize)

NoHasher == [live |-> FALSE, buf |-> <<>>]
new_with_prefix(bytes) == [live |-> TRUE, buf |-> bytes]
update(h, bytes) == [h EXCEPT !.buf = @ \o bytes]
finalize_reset(h) == [out |-> Digest(h.buf), hasher |-> [h EXCEPT !.buf = <<>>]]

----------------------------------------------------------------------------
(* create_powers *)

\* Variant: the exponent is p instead of p+1.
PowersPush_ExponentP(pw, p) ==
    LET r == U64Pow2(p)
    IN  IF r.ovf /\ checks THEN [panic |-> "pow_overflow", val |-> pw]
        ELSE [panic |-> "none", val |-> Append(pw, r.val)]

\* One iteration of the loop: powers.push(2u64.pow(p+1)).
PowersPush(pw, p) ==
    LET r == U64Pow2(p + 1)
    IN  IF r.ovf /\ checks THEN [panic |-> "pow_overflow", val |-> pw]
        ELSE [panic |-> "none", val |-> Append(pw, r.val)]

RECURSIVE PowersLoop(_, _, _)
PowersLoop(pw, p, how_many) ==
    IF p >= how_many THEN [panic |-> "none", val |-> pw]
    ELSE LET r == PowersPush(pw, p)
         IN  IF r.panic # "none" THEN r ELSE PowersLoop(r.val, p + 1, how_many)

\* Variant: the loop runs over 1..how_many, so the table lacks its last entry.
create_powers_FromOne(how_many) == PowersLoop(<<>>, 1, how_many)

create_powers(how_many) == PowersLoop(<<>>, 0, how_many)

----------------------------------------------------------------------------
(* create_hash_chain *)

ErrMessage == "length not a power of two"

\* Variant: the bit test alone, without the zero test.
LengthCheck_BitTestOnly(len) ==
    IF BitAnd(len, USub(len, 1).val) # 0 THEN "err" ELSE "ok"

\* if length == 0 || (length & (length - 1)) != 0 { return Err(..) }
\* The right operand is evaluated only when length is not zero.
LengthCheck(len) ==
    IF len = 0 THEN "err"
    ELSE IF BitAnd(len, USub(len, 1).val) # 0 THEN "err" ELSE "ok"

\* Variant: the pebble list outlives the call (a static vector that is not cleared).
VecNew_Stale == pebbles

\* Vec::<Pebble<H>>::new()
VecNew == <<>>

\* powers.get(idx): Some(value) inside the vector, None outside.
VecGet(v, idx) ==
    IF idx + 1 \in DOMAIN v THEN [some |-> TRUE, val |-> v[idx + 1]]
    ELSE [some |-> FALSE, val |-> 0]

\* Variant: finalize without reset, the fed bytes stay in the hasher.
ChainHashStep_NoReset(h, out) == [out |-> Digest(update(h, out).buf), hasher |-> update(h, out)]

\* digest::Digest::update(&mut hasher, output.as_ref()); output = hasher.finalize_reset();
ChainHashStep(h, out) == finalize_reset(update(h, out))

\* The fields of the Pebble literal, evaluated in the order written.
NewPebble(idx, out) ==
    LET m3 == UMul(3, idx)
        m2 == UMul(2, idx)
    IN  IF (m3.ovf \/ m2.ovf) /\ checks THEN [panic |-> "mul_overflow", val |-> <<>>]
        ELSE [panic |-> "none",
              val |-> <<[start_incr |-> m3.val, dest_incr |-> m2.val, position |-> idx,
                         destination |-> idx, value |-> out]>>]

\* Variant: the power-of-two test is replaced by a parity test.
PushIfPower_Even(idx, pw, pbs, out) ==
    IF idx % 2 # 0 THEN [panic |-> "none", pebbles |-> pbs]
    ELSE [panic |-> "none",
          pebbles |-> Append(pbs, [start_incr |-> UMul(3, idx).val,
                                   dest_incr |-> UMul(2, idx).val, position |-> idx,
                                   destination |-> idx, value |-> out])]

\* if i.eq(powers.get(log_2(i) as usize - 1).unwrap()) { pebbles.push(Pebble{..}) }
PushIfPower(idx, pw, pbs, out) ==
    LET lg == log_2(idx)
        at == USub(lg.val, 1)
        got == VecGet(pw, at.val)
    IN  IF lg.panic # "none" THEN [panic |-> lg.panic, pebbles |-> pbs]
        ELSE IF at.ovf /\ checks THEN [panic |-> "sub_overflow", pebbles |-> pbs]
        ELSE IF ~got.some THEN [panic |-> "unwrap", pebbles |-> pbs]
        ELSE IF idx # got.val THEN [panic |-> "none", pebbles |-> pbs]
        ELSE LET pb == NewPebble(idx, out)
             IN  [panic |-> pb.panic, pebbles |-> pbs \o pb.val]

NoRet == [kind |-> "none", length |-> 0, seed |-> 0, pebbles |-> <<>>, details |-> ""]
ErrRet(len, sd) ==
    [kind |-> "Err", length |-> len, seed |-> sd, pebbles |-> <<>>, details |-> ErrMessage]
OkRet(len, sd, pbs) ==
    [kind |-> "Ok", length |-> len, seed |-> sd, pebbles |-> pbs, details |-> ""]

\* Lines 73-87: validation, pebble count, power table, first digest output.
CreateHashChainEnter(len, sd) ==
    /\ pc = "idle"
    /\ length' = len
    /\ seed' = sd
    /\ IF LengthCheck(len) = "err"
       THEN /\ ret' = ErrRet(len, sd)
            /\ num_pebbles' = 0 /\ powers' = <<>> /\ pebbles' = <<>>
            /\ hasher' = NoHasher /\ output' = <<>> /\ i' = 0 /\ hashes' = 0
            /\ UNCHANGED <<pc, panic>>
       ELSE LET lg == log_2(len)
                pw == create_powers(lg.val)
                fr == finalize_reset(new_with_prefix(to_le_bytes(sd)))
            IN  IF lg.panic # "none" \/ pw.panic # "none"
                THEN /\ pc' = "panicked"
                     /\ panic' = IF lg.panic # "none" THEN lg.panic ELSE pw.panic
                     /\ ret' = NoRet
                     /\ num_pebbles' = 0 /\ powers' = <<>> /\ pebbles' = <<>>
                     /\ hasher' = NoHasher /\ output' = <<>> /\ i' = 0 /\ hashes' = 0
                ELSE /\ pc' = "chain"
                     /\ ret' = NoRet
                     /\ num_pebbles' = lg.val
                     /\ pebbles' = VecNew
                     /\ powers' = pw.val
                     /\ hasher' = fr.hasher
                     /\ output' = fr.out
                     /\ hashes' = 1
                     /\ i' = 2
                     /\ UNCHANGED panic
    /\ UNCHANGED <<checks, snap, fullVars, pwVars>>

\* Lines 88-101: one iteration of `for i in 2u64..=length as u64`.
CreateHashChainIter ==
    /\ pc = "chain"
    /\ i <= length
    /\ LET fr == ChainHashStep(hasher, output)
           r == PushIfPower(i, powers, pebbles, fr.out)
       IN  /\ hasher' = fr.hasher
           /\ output' = fr.out
           /\ hashes' = hashes + 1
           /\ IF r.panic # "none"
              THEN /\ pc' = "panicked"
                   /\ panic' = r.panic
                   /\ UNCHANGED <<pebbles, i>>
              ELSE /\ pebbles' = r.pebbles
                   /\ i' = i + 1
                   /\ UNCHANGED <<pc, panic>>
    /\ UNCHANGED <<checks, length, seed, num_pebbles, powers, ret, snap, fullVars, pwVars>>

\* Line 103: Ok(pebbles)
CreateHashChainReturn ==
    /\ pc = "chain"
    /\ i > length
    /\ ret' = OkRet(length, seed, pebbles)
    /\ pc' = "idle"
    /\ UNCHANGED <<checks, panic, length, seed, num_pebbles, powers, pebbles, hasher,
                   output, i, hashes, snap, fullVars, pwVars>>

----------------------------------------------------------------------------
(* create_hash_chain_nopebble *)

\* Variant: the previous output is not fed back into the hasher.
FullHashStep_NoUpdate(h, out) == finalize_reset(h)

\* digest::Digest::update(&mut hasher, output.as_ref()); output = hasher.finalize_reset();
FullHashStep(h, out) == finalize_reset(update(h, out))

NoFull == [kind |-> "none", length |-> 0, seed |-> 0, chain |-> <<>>]

\* Lines 109-112: first digest output, pushed as the first element.
NoPebbleEnter(len, sd) ==
    /\ pc = "idle"
    /\ LET fr == finalize_reset(new_with_prefix(to_le_bytes(sd)))
       IN  /\ f_length' = len
           /\ f_seed' = sd
           /\ f_hasher' = fr.hasher
           /\ f_output' = fr.out
           /\ chain' = <<fr.out>>
           /\ f_i' = 2
           /\ full' = NoFull
           /\ pc' = "full"
    /\ UNCHANGED <<checks, panic, chainVars, snap, pwVars>>

\* Lines 113-117: one iteration of `for _ in 2u64..=length as u64`.
NoPebbleIter ==
    /\ pc = "full"
    /\ f_i <= f_length
    /\ LET fr == FullHashStep(f_hasher, f_output)
       IN  /\ f_hasher' = fr.hasher
           /\ f_output' = fr.out
           /\ chain' = Append(chain, fr.out)
           /\ f_i' = f_i + 1
    /\ UNCHANGED <<checks, pc, panic, chainVars, snap, f_length, f_seed, full, pwVars>>

\* Line 118: chain
NoPebbleReturn ==
    /\ pc = "full"
    /\ f_i > f_length
    /\ full' = [kind |-> "Ok", length |-> f_length, seed |-> f_seed, chain |-> chain]
    /\ pc' = "idle"
    /\ UNCHANGED <<checks, panic, chainVars, snap, f_length, f_seed, chain, f_hasher,
                   f_output, f_i, pwVars>>

----------------------------------------------------------------------------
(* create_powers called on its own, one loop iteration per step *)

PowersEnter(n) ==
    /\ pw_pc \in {"idle", "done"}
    /\ pw_how_many' = n
    /\ pw_p' = 0
    /\ pw_powers' = <<>>
    /\ pw_pc' = "loop"
    /\ UNCHANGED <<checks, pc, panic, chainVars, snap, fullVars>>

PowersIter ==
    /\ pw_pc = "loop"
    /\ pw_p < pw_how_many
    /\ LET r == PowersPush(pw_powers, pw_p)
       IN  IF r.panic # "none"
           THEN /\ pw_pc' = "panicked"
                /\ UNCHANGED <<pw_p, pw_powers>>
           ELSE /\ pw_powers' = r.val
                /\ pw_p' = pw_p + 1
                /\ UNCHANGED pw_pc
    /\ UNCHANGED <<checks, pc, panic, chainVars, snap, fullVars, pw_how_many>>

PowersReturn ==
    /\ pw_pc = "loop"
    /\ pw_p >= pw_how_many
    /\ pw_pc' = "done"
    /\ UNCHANGED <<checks, pc, panic, chainVars, snap, fullVars, pw_how_many, pw_p, pw_powers>>

----------------------------------------------------------------------------
(* The caller keeps the result of a call and goes on to make further calls. *)
Remember ==
    /\ pc = "idle"
    /\ ret.kind # "none"
    /\ snap' = ret
    /\ ret' = NoRet
    /\ UNCHANGED <<checks, pc, panic, length, seed, num_pebbles, powers, pebbles, hasher,
                   output, i, hashes, fullVars, pwVars>>

----------------------------------------------------------------------------
Init ==
    /\ checks \in BOOLEAN
    /\ pc = "idle"
    /\ panic = "none"
    /\ length = 0 /\ seed = 0 /\ num_pebbles = 0
    /\ powers = <<>> /\ pebbles = <<>>
    /\ hasher = NoHasher /\ output = <<>> /\ i = 0 /\ hashes = 0
    /\ ret = NoRet
    /\ snap = NoRet
    /\ f_length = 0 /\ f_seed = 0 /\ chain = <<>>
    /\ f_hasher = NoHasher /\ f_output = <<>> /\ f_i = 0
    /\ full = NoFull
    /\ pw_pc = "idle" /\ pw_how_many = 0 /\ pw_p = 0 /\ pw_powers = <<>>

ChainCall == \E len \in Lengths, sd \in Seeds : CreateHashChainEnter(len, sd)
FullCall == \E len \in FullLengths, sd \in Seeds : NoPebbleEnter(len, sd)
PowersCall == \E n \in HowManys : PowersEnter(n)

\* Both generators, called in any order with any arguments.
Next ==
    \/ ChainCall
    \/ CreateHashChainIter
    \/ CreateHashChainReturn
    \/ FullCall
    \/ NoPebbleIter
    \/ NoPebbleReturn

Spec == Init /\ [][Next]_vars

\* Repeated calls of create_hash_chain by a caller that keeps earlier results.
NextDet ==
    \/ ChainCall
    \/ CreateHashChainIter
    \/ CreateHashChainReturn
    \/ Remember

SpecDet == Init /\ [][NextDet]_vars

\* create_powers alone.
NextPowers ==
    \/ PowersCall
    \/ PowersIter
    \/ PowersReturn

SpecPowers == Init /\ [][NextPowers]_vars

----------------------------------------------------------------------------
(* Properties *)

\* n is a power of two representable in the machine word.
IsPow2(n) == \E k \in 0 .. (WordBits - 1) : n = Pow2(k)

\* floor(log2(n)) for n >= 1.
FloorLog2(n) == CHOOSE k \in 0 .. WordBits : Pow2(k) <= n /\ n < Pow2(k + 1)

\* Chain element H_k: H_1 = Hash(seed bytes), H_k = Hash(H_(k-1)).
RECURSIVE ChainElem(_, _)
ChainElem(sd, k) == IF k <= 1 THEN Digest(to_le_bytes(sd)) ELSE Digest(ChainElem(sd, k - 1))

ExactFields(pb) ==
    /\ pb.destination = pb.position
    /\ pb.dest_incr = 2 * pb.position
    /\ pb.start_incr = 3 * pb.position

\* C1: a call of create_hash_chain with a power-of-two length never fails, and
\* it returns Ok with exactly log2(L) pebbles at positions 2, 4, ..., L in order.
C1_OkWithPowerPositions ==
    /\ (pc = "panicked" => ~IsPow2(length))
    /\ (ret.kind # "none" /\ IsPow2(ret.length)) =>
          /\ ret.kind = "Ok"
          /\ Len(ret.pebbles) = FloorLog2(ret.length)
          /\ \A j \in 1 .. Len(ret.pebbles) : ret.pebbles[j].position = Pow2(j)

\* C2: a length that is zero or not a power of two is answered with
\* Err("length not a power of two") before any work: no digest is created or
\* finalised, no power table and no pebble exist, and nothing panics (the
\* subtraction length - 1 is not evaluated for zero); such a length never gets
\* into the loop and never yields Ok.
C2_InvalidLengthRejected ==
    /\ (pc \in {"chain", "panicked"} => IsPow2(length))
    /\ (ret.kind = "Ok" => IsPow2(ret.length))
    /\ (ret.kind = "Err" =>
          /\ ~IsPow2(ret.length)
          /\ ret.details = ErrMessage
          /\ ret.pebbles = <<>>
          /\ panic = "none"
          /\ hashes = 0
          /\ hasher = NoHasher
          /\ output = <<>>
          /\ powers = <<>>
          /\ pebbles = <<>>)

C2_Witness == pc = "idle" /\ ret.kind = "Err" /\ ret.length = 0

\* C3: the value of every returned pebble equals the element of the full chain
\* (same length, same seed) at the pebble's position; the last pebble's value is
\* the last element of the full chain.
C3_PebblesMatchFullChain ==
    (ret.kind = "Ok" /\ full.kind = "Ok"
        /\ ret.length = full.length /\ ret.seed = full.seed) =>
       /\ \A j \in 1 .. Len(ret.pebbles) :
             /\ ret.pebbles[j].position \in 1 .. Len(full.chain)
             /\ ret.pebbles[j].value = full.chain[ret.pebbles[j].position]
       /\ (ret.pebbles # <<>> =>
             ret.pebbles[Len(ret.pebbles)].value = full.chain[Len(full.chain)])

C3_Witness ==
    /\ ret.kind = "Ok" /\ full.kind = "Ok"
    /\ ret.length = 4 /\ full.length = 4 /\ ret.seed = full.seed
    /\ Len(ret.pebbles) = 2

\* C4 as claimed: for every count, create_powers returns without failure the
\* exact powers 2^1 .. 2^n.
C4_AnyCount ==
    /\ pw_pc # "panicked"
    /\ (pw_pc = "done" =>
          /\ Len(pw_powers) = pw_how_many
          /\ \A j \in 1 .. Len(pw_powers) : pw_powers[j] = Pow2(j))

\* C4 amended: for every count below the bit width of u64, create_powers
\* returns without failure the exact powers 2^1 .. 2^n, in order.
C4_CountBelowWidth ==
    (pw_how_many < WordBits) =>
       /\ pw_pc # "panicked"
       /\ \A j \in 1 .. Len(pw_powers) : pw_powers[j] = Pow2(j)
       /\ (pw_pc = "done" => Len(pw_powers) = pw_how_many)

C4_Witness == pw_pc = "done" /\ pw_how_many = 3 /\ pw_powers = <<2, 4, 8>>

\* C5: for every positive length, power of two or not, the full chain returned
\* has exactly that many elements and element k is H_k.
C5_FullChain ==
    (full.kind = "Ok" /\ full.length >= 1) =>
       /\ Len(full.chain) = full.length
       /\ \A k \in 1 .. Len(full.chain) : full.chain[k] = ChainElem(full.seed, k)

C5_Witness == full.kind = "Ok" /\ full.length = 3 /\ Len(full.chain) = 3

\* C6: every pebble has destination = position, dest_incr = 2 * position and
\* start_incr = 3 * position exactly, and no multiplication overflows.
C6_ExactIncrements ==
    /\ panic # "mul_overflow"
    /\ \A j \in 1 .. Len(pebbles) : ExactFields(pebbles[j])
    /\ \A j \in 1 .. Len(ret.pebbles) : ExactFields(ret.pebbles[j])

\* C7: a call of create_hash_chain returns the same result as an earlier call
\* with the same length and seed, whatever was called in between.
C7_Deterministic ==
    (snap.kind # "none" /\ ret.kind # "none"
        /\ snap.length = ret.length /\ snap.seed = ret.seed) => snap = ret

C7_Witness ==
    /\ snap.kind = "Ok" /\ ret.kind = "Ok"
    /\ snap.length = ret.length /\ snap.seed = ret.seed
    /\ Len(ret.pebbles) >= 2

\* C8: on entry to the loop the rolling value is H_1 and no pebble is held; the
\* iteration for index i leaves the rolling value equal to H_i, pushes a pebble
\* exactly when i is a power of two, holds floor(log2(i)) pebbles (never more
\* than log2(length)) and leaves the digest reset.
C8_LoopInvariant ==
    [][/\ (pc = "idle" /\ pc' = "chain") =>
             /\ output' = ChainElem(seed', 1)
             /\ pebbles' = <<>>
             /\ hasher' = [live |-> TRUE, buf |-> <<>>]
       /\ (pc = "chain" /\ pc' = "chain" /\ i' = i + 1) =>
             /\ output' = ChainElem(seed, i)
             /\ (Len(pebbles') = Len(pebbles) + 1) <=> IsPow2(i)
             /\ (Len(pebbles') = Len(pebbles)) <=> ~IsPow2(i)
             /\ Len(pebbles') = FloorLog2(i)
             /\ Len(pebbles') <= FloorLog2(length)
             /\ \A j \in 1 .. Len(pebbles) : pebbles'[j] = pebbles[j]
             /\ hasher' = [live |-> TRUE, buf |-> <<>>]]_vars

C8_Witness == pc = "chain" /\ length = 8 /\ i = 5 /\ Len(pebbles) = 2

\* C9: no assertion and no unwrap fails: log_2 is never given 0, the table index
\* log_2(i) - 1 never underflows, and it is below the table's length, which is
\* log2(length), for every loop index.
C9_NoAssertOrUnwrapFailure ==
    /\ panic \notin {"assert", "unwrap", "sub_overflow", "pow_overflow"}
    /\ (pc = "chain" =>
          /\ length > 0
          /\ Len(powers) = FloorLog2(length)
          /\ num_pebbles = Len(powers)
          /\ (i <= length =>
                /\ i > 0
                /\ log_2(i).val >= 1
                /\ log_2(i).val - 1 < Len(powers)))
    /\ (ret.kind = "Ok" => Len(ret.pebbles) = num_pebbles)

C9_Witness ==
    pc = "chain" /\ length = 4 /\ i = length + 1 /\ Len(pebbles) = Len(powers)

\* C10: once validation has passed the call never stops part-way: it makes one
\* digest finalisation for the seed and one per iteration, length in all, runs
\* length - 1 iterations and returns Ok.
C10_AlwaysReturnsOk ==
    /\ pc # "panicked"
    /\ (pc = "chain" => hashes = i - 1 /\ i <= length + 1)
    /\ (ret.kind = "Ok" => hashes = ret.length /\ i - 2 = ret.length - 1)

====
